---- MODULE Spec2Model ----
(***************************************************************************)
(* Model of src/main.py: the storage-triggered ETL handler hello_gcs.       *)
(*                                                                         *)
(* Spec  : the control flow of hello_gcs (loader loop, scratch directory,  *)
(*         CSV writing, zipping, upload, top-level handler, cleanup) over  *)
(*         the invocations one function instance serves.  An instance      *)
(*         serves one event at a time and keeps its file system between    *)
(*         events, so an invocation starts with whatever the previous      *)
(*         one left in temp_dir.                                           *)
(* SpecT : the dataframe transform of lines 49-93 applied to bounded       *)
(*         orders and order-details tables (keys, quantities).             *)
(* SpecD : the same transform applied to orders whose date cells vary.     *)
(***************************************************************************)
EXTENDS Integers, Sequences, FiniteSets, TLC

VARIABLES
    bucket,      \* names of the objects present in the event's bucket
    dirExists,   \* os.path.exists(temp_dir)
    files,       \* temp_dir's entries: file name -> who wrote it, or Absent
    pc,          \* the statement the invocation is about to execute
    k,           \* index of the running for loop over file_paths / output_files
    dataframes,  \* keys of the dict dataframes
    listing,     \* what is left to iterate of os.listdir(temp_dir)
    zipf,        \* members written to the ZipFile: <<file name, writer>>
    uploads,     \* calls of upload_from_filename that succeeded
    archive,     \* members of the archive uploaded
    missing,     \* object named by the FileNotFoundError of line 38
    found,       \* <<temp_dir existed, its entries>> when the invocation started
    err,         \* <<stage, kind>> of the exception raised in the try body
    caught,      \* times line 129 logged an error
    escaped,     \* an exception the except clause did not take
    cleanupErr,  \* line 140 logged a cleanup error
    outcome,     \* "running", "returned" or "raised"
    orders_df,          \* rows of orders.xlsx
    order_details_df,   \* rows of order_details.xlsx
    merged_df,          \* line 50
    customer_agg,       \* lines 53-57
    product_agg,        \* lines 59-63
    order_fact_table,   \* lines 66-82
    time_dim,           \* lines 84-93
    tpc                 \* the statement of the transform to execute next

pvars == <<bucket, dirExists, files, pc, k, dataframes, listing, zipf, uploads,
           archive, missing, found, err, caught, escaped, cleanupErr, outcome>>

tvars == <<orders_df, order_details_df, merged_df, customer_agg, product_agg,
           order_fact_table, time_dim, tpc>>

vars == <<pvars, tvars>>

----------------------------------------------------------------------------
(* Names                                                                    *)

None == "none"
Absent == "absent"

\* Who wrote a file of temp_dir: the running invocation or an earlier one.
This == "this"
Earlier == "earlier"

\* Kinds of exception: a required object is absent (line 38), a storage,
\* parsing or file-system call failed, a name is unbound.
Missing == "FileNotFoundError"
Env == "EnvError"
Name == "NameError"

\* main.py:22-27
file_paths == <<"customers.xlsx", "products.xlsx", "orders.xlsx", "order_details.xlsx">>

\* main.py:96-101, the keys of output_files in insertion order
output_files == <<"Customer_Dimension", "Product_Dimension", "Order_Fact", "Time_Dimension">>

\* main.py:107; a file name is <<stem, extension>>.
CsvName(table_name) == <<table_name, "csv">>

\* main.py:112
zip_file == <<"etl_output", "zip">>

\* main.py:122
output_blob_name == "etl_output.zip"

Range(s) == {s[n] : n \in 1..Len(s)}

\* Every name hello_gcs creates in temp_dir.
FileNames == {CsvName(t) : t \in Range(output_files)} \cup {zip_file}

\* Mutant of EndsWithCsv: the listing is zipped without the filter.
EndsWithCsvM(file_name) == TRUE

\* main.py:116, file_name.endswith(".csv")
EndsWithCsv(file_name) == file_name[2] = "csv"

\* os.listdir(temp_dir)
ListDir == {n \in FileNames : files[n] # Absent}

\* The names bound when line 126 is evaluated: the parameter of hello_gcs and
\* every assignment target that precedes line 126.
LocalNames ==
    {"cloud_event", "temp_dir", "data", "event_id", "event_type", "bucket", "name",
     "file_paths", "storage_client", "dataframes", "file", "blob", "customers_df",
     "products_df", "orders_df", "order_details_df", "merged_df", "customer_agg",
     "product_agg", "merged_with_aggregates", "order_fact_table", "unique_dates",
     "time_dim", "output_files", "table_name", "df", "output_path", "zip_file_path",
     "zipf", "file_name", "file_path", "output_blob_name", "output_blob"}

\* The names the f-string of line 126 reads.
LogUploadedReads == {"bucket_name", "output_blob_name"}

Stages == {"event", "load", "transform", "makedirs", "to_csv", "zip", "upload", "log"}

----------------------------------------------------------------------------
(* Helpers                                                                  *)

\* Mutant of BlobExists: the first object is taken to exist without asking.
BlobExistsM(file) == file = file_paths[1] \/ file \in bucket

\* main.py:37, blob.exists()
BlobExists(file) == file \in bucket

\* Mutant of Catches: the try statement opens after the event is read.
CatchesM(stage) == stage \in Stages \ {"event"}

\* main.py:11,128: the stages whose statements lie inside the try body
Catches(stage) == stage \in Stages

\* main.py:128-129 then the finally clause: an exception of `kind` raised by
\* a statement of `stage`.
Raise(stage, kind) ==
    /\ err' = <<stage, kind>>
    /\ caught' = IF Catches(stage) THEN caught + 1 ELSE caught
    /\ escaped' = ~Catches(stage)
    /\ pc' = "cleanup"

\* A statement of the try body completes: control moves on.
Goto(next) ==
    /\ pc' = next
    /\ UNCHANGED <<err, caught, escaped, found>>

\* The function ends; an exception the except clause did not take is
\* re-raised after the finally clause.
Return ==
    /\ pc' = "done"
    /\ outcome' = IF escaped THEN "raised" ELSE "returned"

----------------------------------------------------------------------------
(* hello_gcs, statement by statement                                        *)

\* The platform calls hello_gcs for an event on some bucket; main.py:9-10.
\* What the previous invocation left in temp_dir is an earlier invocation's.
Start ==
    /\ pc \in {"idle", "done"}
    /\ pc' = "event"
    /\ bucket' \in SUBSET Range(file_paths)
    /\ files' = [n \in FileNames |-> IF files[n] = Absent THEN Absent ELSE Earlier]
    /\ k' = 0
    /\ dataframes' = {}
    /\ listing' = {}
    /\ zipf' = {}
    /\ uploads' = 0
    /\ archive' = {}
    /\ missing' = None
    /\ found' = <<dirExists, ListDir>>
    /\ err' = None
    /\ caught' = 0
    /\ escaped' = FALSE
    /\ cleanupErr' = FALSE
    /\ outcome' = "running"
    /\ UNCHANGED dirExists

\* main.py:12-31: read the event, create the storage client.
ReadEvent ==
    /\ pc = "event"
    /\ \/ /\ Goto("load")
          /\ k' = 1
       \/ /\ Raise("event", Env)           \* a key is missing, no credentials
          /\ UNCHANGED k
    /\ UNCHANGED <<bucket, dirExists, files, dataframes, listing, zipf, uploads,
                   archive, missing, found, cleanupErr, outcome>>

\* The for loop of line 35 moves to its next file, or ends.
NextFile ==
    IF k < Len(file_paths)
    THEN k' = k + 1 /\ Goto("load")
    ELSE k' = 0 /\ Goto("transform")

\* Mutant of OnMissing: the absence is noted and the loop goes on.
OnMissingM(file) ==
    /\ missing' = file
    /\ NextFile
    /\ UNCHANGED dataframes

\* main.py:37-38: the blob does not exist.
OnMissing(file) ==
    /\ missing' = file
    /\ Raise("load", Missing)
    /\ UNCHANGED <<k, dataframes, found>>

\* main.py:39-40: download the blob and parse it.
OnLoaded(file) ==
    /\ dataframes' = dataframes \cup {file}
    /\ NextFile
    /\ UNCHANGED missing

\* main.py:35-40: one iteration of the loader loop.
LoadFile ==
    /\ pc = "load"
    /\ \/ /\ ~BlobExists(file_paths[k])
          /\ OnMissing(file_paths[k])
       \/ /\ BlobExists(file_paths[k])
          /\ OnLoaded(file_paths[k])
       \/ /\ BlobExists(file_paths[k])     \* the download or the parse fails
          /\ Raise("load", Env)
          /\ UNCHANGED <<k, dataframes, missing>>
    /\ UNCHANGED <<bucket, dirExists, files, listing, zipf, uploads, archive,
                   found, cleanupErr, outcome>>

\* main.py:43-101: the dataframe transform (its data is modelled under SpecT).
TransformStep ==
    /\ pc = "transform"
    /\ \/ Goto("makedirs")
       \/ Raise("transform", Env)          \* a column is missing, a date does not parse
    /\ UNCHANGED <<bucket, dirExists, files, k, dataframes, listing, zipf, uploads,
                   archive, missing, found, cleanupErr, outcome>>

\* main.py:104, os.makedirs(temp_dir, exist_ok=True)
MakeDirs ==
    /\ pc = "makedirs"
    /\ \/ /\ dirExists' = TRUE
          /\ k' = 1
          /\ Goto("to_csv")
       \/ /\ Raise("makedirs", Env)
          /\ UNCHANGED <<dirExists, k>>
    /\ UNCHANGED <<bucket, files, dataframes, listing, zipf, uploads, archive, missing,
                   cleanupErr, outcome, found>>

\* main.py:106-109: one iteration, df.to_csv(output_path, index=False).
ToCsv ==
    /\ pc = "to_csv"
    /\ \/ /\ files' = [files EXCEPT ![CsvName(output_files[k])] = This]
          /\ IF k < Len(output_files)
             THEN k' = k + 1 /\ Goto("to_csv")
             ELSE k' = 0 /\ Goto("zip_open")
       \/ /\ Raise("to_csv", Env)          \* the file cannot be written
          /\ UNCHANGED <<files, k>>
    /\ UNCHANGED <<bucket, dirExists, dataframes, listing, zipf, uploads, archive,
                   missing, found, cleanupErr, outcome>>

\* main.py:112-113, zipfile.ZipFile(zip_file_path, "w") creates the file.
ZipOpen ==
    /\ pc = "zip_open"
    /\ \/ /\ files' = [files EXCEPT ![zip_file] = This]
          /\ zipf' = {}
          /\ Goto("zip_listdir")
       \/ /\ Raise("zip", Env)
          /\ UNCHANGED <<files, zipf>>
    /\ UNCHANGED <<bucket, dirExists, k, dataframes, listing, uploads, archive, missing,
                   cleanupErr, outcome, found>>

\* main.py:114, os.listdir(temp_dir)
ZipListDir ==
    /\ pc = "zip_listdir"
    /\ \/ /\ listing' = ListDir
          /\ Goto("zip_write")
       \/ /\ Raise("zip", Env)
          /\ UNCHANGED listing
    /\ UNCHANGED <<bucket, dirExists, files, k, dataframes, zipf, uploads, archive,
                   missing, found, cleanupErr, outcome>>

\* main.py:114-117: one iteration over the listing, in whatever order
\* listdir gave.
ZipWrite ==
    /\ pc = "zip_write"
    /\ \E file_name \in listing :
        \/ /\ ~EndsWithCsv(file_name)
           /\ listing' = listing \ {file_name}
           /\ Goto("zip_write")
           /\ UNCHANGED zipf
        \/ /\ EndsWithCsv(file_name)
           /\ zipf' = zipf \cup {<<file_name, files[file_name]>>}
           /\ listing' = listing \ {file_name}
           /\ Goto("zip_write")
        \/ /\ EndsWithCsv(file_name)       \* the file cannot be read
           /\ Raise("zip", Env)
           /\ UNCHANGED <<zipf, listing>>
    /\ UNCHANGED <<bucket, dirExists, files, k, dataframes, uploads, archive, missing,
                   cleanupErr, outcome, found>>

\* main.py:113,119: the with block ends, the archive is closed.
ZipClose ==
    /\ pc = "zip_write"
    /\ listing = {}
    /\ Goto("upload")
    /\ UNCHANGED <<bucket, dirExists, files, k, dataframes, listing, zipf, uploads,
                   archive, missing, found, cleanupErr, outcome>>

\* main.py:122-124, output_blob.upload_from_filename(zip_file_path)
Upload ==
    /\ pc = "upload"
    /\ \/ /\ uploads' = uploads + 1
          /\ archive' = zipf
          /\ bucket' = bucket \cup {output_blob_name}
          /\ Goto("log")
       \/ /\ Raise("upload", Env)          \* the request fails
          /\ UNCHANGED <<uploads, archive, bucket>>
    /\ UNCHANGED <<dirExists, files, k, dataframes, listing, zipf, missing,
                   found, cleanupErr, outcome>>

\* main.py:126: the f-string is evaluated; an unbound name is a NameError.
LogUploaded ==
    /\ pc = "log"
    /\ IF LogUploadedReads \subseteq LocalNames
       THEN Goto("cleanup")
       ELSE Raise("log", Name)
    /\ UNCHANGED <<bucket, dirExists, files, k, dataframes, listing, zipf, uploads,
                   archive, missing, found, cleanupErr, outcome>>

\* Mutant of TempDirExists: the directory is removed after a clean run only.
TempDirExistsM == dirExists /\ err = None

\* main.py:134, os.path.exists(temp_dir)
TempDirExists == dirExists

\* main.py:139-140: a cleanup error is logged and the function ends.
CleanupFail ==
    /\ cleanupErr' = TRUE
    /\ Return

\* main.py:134 (and 138 when there is no directory)
CleanupExists ==
    /\ pc = "cleanup"
    /\ IF TempDirExists
       THEN pc' = "rm_listdir" /\ UNCHANGED outcome
       ELSE Return
    /\ UNCHANGED <<bucket, dirExists, files, k, dataframes, listing, zipf, uploads,
                   archive, missing, found, err, caught, escaped, cleanupErr>>

\* main.py:135, os.listdir(temp_dir)
CleanupListDir ==
    /\ pc = "rm_listdir"
    /\ \/ /\ listing' = ListDir
          /\ pc' = "remove"
          /\ UNCHANGED <<cleanupErr, outcome>>
       \/ /\ CleanupFail                   \* the directory cannot be read
          /\ UNCHANGED listing
    /\ UNCHANGED <<bucket, dirExists, files, k, dataframes, zipf, uploads, archive,
                   missing, found, err, caught, escaped>>

\* main.py:135-136: one iteration, os.remove(...)
CleanupRemove ==
    /\ pc = "remove"
    /\ \E file_name \in listing :
        \/ /\ files' = [files EXCEPT ![file_name] = Absent]
           /\ listing' = listing \ {file_name}
           /\ UNCHANGED <<pc, cleanupErr, outcome>>
        \/ /\ CleanupFail                  \* the file cannot be removed
           /\ UNCHANGED <<files, listing>>
    /\ UNCHANGED <<bucket, dirExists, k, dataframes, zipf, uploads, archive, missing,
                   err, caught, escaped, found>>

\* main.py:137-138: os.rmdir(temp_dir), then the function ends.
CleanupRmdir ==
    /\ pc = "remove"
    /\ listing = {}
    /\ \/ /\ ListDir = {}
          /\ dirExists' = FALSE
          /\ Return
          /\ UNCHANGED cleanupErr
       \/ /\ CleanupFail                   \* the directory cannot be removed
          /\ UNCHANGED dirExists
    /\ UNCHANGED <<bucket, files, k, dataframes, listing, zipf, uploads, archive,
                   missing, found, err, caught, escaped>>

----------------------------------------------------------------------------
(* The instance before its first event: no scratch directory.               *)

InitP ==
    /\ bucket = {}
    /\ dirExists = FALSE
    /\ files = [n \in FileNames |-> Absent]
    /\ pc = "idle"
    /\ k = 0
    /\ dataframes = {}
    /\ listing = {}
    /\ zipf = {}
    /\ uploads = 0
    /\ archive = {}
    /\ missing = None
    /\ found = <<FALSE, {}>>
    /\ err = None
    /\ caught = 0
    /\ escaped = FALSE
    /\ cleanupErr = FALSE
    /\ outcome = "running"

(***************************************************************************)
(* The dataframe transform, main.py:49-93.  A dataframe is a sequence of   *)
(* rows, a row a record of its columns, a cell is Null (NaN, NaT) or       *)
(* Val(v).                                                                 *)
(***************************************************************************)

Null == <<>>
Val(v) == <<v>>

\* A row of nulls for the columns `cols`.
NullRow(cols) == [c \in cols |-> Null]

\* The rows of `right` that join `l`: equal key, and, as in pandas' merge,
\* a null key joins a null key.
RECURSIVE Matches(_, _, _)
Matches(l, right, on) ==
    IF right = <<>> THEN <<>>
    ELSE (IF l[on] = Head(right)[on] THEN <<l @@ Head(right)>> ELSE <<>>)
         \o Matches(l, Tail(right), on)

\* Mutant of Unmatched: a left row without a match is dropped.
UnmatchedM(l, cols, how) == <<>>

\* DataFrame.merge: what a left row without a match contributes.
Unmatched(l, cols, how) == IF how = "left" THEN <<l @@ NullRow(cols)>> ELSE <<>>

\* DataFrame.merge(right, on=on, how=how); cols are right's other columns.
RECURSIVE Merge(_, _, _, _, _)
Merge(left, right, on, how, cols) ==
    IF left = <<>> THEN <<>>
    ELSE (IF Matches(Head(left), right, on) = <<>>
          THEN Unmatched(Head(left), cols, how)
          ELSE Matches(Head(left), right, on))
         \o Merge(Tail(left), right, on, how, cols)

\* The rows of one group of groupby(key).
Group(rows, key, v) == SelectSeq(rows, LAMBDA r : r[key] = v)

\* groupby(key) with dropna=True: the non-null key values, ascending.
GroupKeys(rows, key) == {rows[n][key] : n \in 1..Len(rows)} \ {Null}

RECURSIVE Ascending(_)
Ascending(S) ==
    IF S = {} THEN <<>>
    ELSE LET m == CHOOSE x \in S : \A y \in S : x[1] <= y[1]
         IN <<m>> \o Ascending(S \ {m})

\* Mutant of Count: every row of the group is counted (size, not count).
CountM(rows, col) == Len(rows)

\* The "count" aggregation: the non-null cells of the column.
Count(rows, col) == Len(SelectSeq(rows, LAMBDA r : r[col] # Null))

\* The "sum" aggregation: nulls are skipped.
RECURSIVE Sum(_, _)
Sum(rows, col) ==
    IF rows = <<>> THEN 0
    ELSE (IF Head(rows)[col] = Null THEN 0 ELSE Head(rows)[col][1]) + Sum(Tail(rows), col)

\* The "mean" aggregation, as the fraction <<sum, count>>; NaN for no value.
Mean(rows, col) ==
    IF Count(rows, col) = 0 THEN Null ELSE Val(<<Sum(rows, col), Count(rows, col)>>)

\* main.py:53-57
CustomerAgg(merged) ==
    LET keys == Ascending(GroupKeys(merged, "CustomerID"))
    IN [n \in 1..Len(keys) |->
           [CustomerID |-> keys[n],
            CustomerOrderCount |-> Val(Count(Group(merged, "CustomerID", keys[n]), "OrderID")),
            CustomerMeanDiscount |-> Mean(Group(merged, "CustomerID", keys[n]), "Discount")]]

\* main.py:59-63
ProductAgg(merged) ==
    LET keys == Ascending(GroupKeys(merged, "ProductID"))
    IN [n \in 1..Len(keys) |->
           [ProductID |-> keys[n],
            ProductOrderCount |-> Val(Count(Group(merged, "ProductID", keys[n]), "OrderID")),
            ProductTotalQuantity |-> Val(Sum(Group(merged, "ProductID", keys[n]), "Quantity"))]]

\* main.py:70-82
FactColumns ==
    {"OrderID", "CustomerID", "ProductID", "OrderDate", "ShipDate", "CustomerOrderCount",
     "CustomerMeanDiscount", "ProductOrderCount", "ProductTotalQuantity"}

\* df[[columns]]
Project(rows, cols) == [n \in 1..Len(rows) |-> [c \in cols |-> rows[n][c]]]

\* main.py:66-82
OrderFact(merged, cagg, pagg) ==
    Project(Merge(Merge(merged, cagg, "CustomerID", "left",
                        {"CustomerOrderCount", "CustomerMeanDiscount"}),
                  pagg, "ProductID", "left", {"ProductOrderCount", "ProductTotalQuantity"}),
            FactColumns)

(* Dates.  The value of a date cell is a datetime (form "ts") or a text    *)
(* that spells one (form "str"); a datetime is <<year, month, day>>, the   *)
(* time of day being midnight.                                             *)

Column(rows, col) == [n \in 1..Len(rows) |-> rows[n][col]]

\* Series.dropna()
DropNa(cells) == SelectSeq(cells, LAMBDA c : c # Null)

\* Series.unique(): the distinct values in order of first appearance.
RECURSIVE Unique(_)
Unique(cells) ==
    IF cells = <<>> THEN <<>>
    ELSE LET init == Unique(SubSeq(cells, 1, Len(cells) - 1))
             last == cells[Len(cells)]
         IN IF \E n \in 1..Len(init) : init[n] = last THEN init ELSE Append(init, last)

\* pd.to_datetime of one value: a datetime is kept, a text is parsed.
ToDatetime(cell) == cell[1].at

\* The order of datetimes.
Earlier2(a, b) ==
    \/ a[1] < b[1]
    \/ a[1] = b[1] /\ a[2] < b[2]
    \/ a[1] = b[1] /\ a[2] = b[2] /\ a[3] < b[3]

\* sorted(): insertion of x into an ascending list, after its equals.
RECURSIVE Insert(_, _)
Insert(x, sortedSeq) ==
    IF sortedSeq = <<>> THEN <<x>>
    ELSE IF Earlier2(x, Head(sortedSeq)) THEN <<x>> \o sortedSeq
         ELSE <<Head(sortedSeq)>> \o Insert(x, Tail(sortedSeq))

RECURSIVE Sorted(_)
Sorted(xs) == IF xs = <<>> THEN <<>> ELSE Insert(xs[Len(xs)], Sorted(SubSeq(xs, 1, Len(xs) - 1)))

\* The decimal digits of n, zero-padded to `width` places.
RECURSIVE Digits(_, _)
Digits(n, width) == IF width = 0 THEN <<>> ELSE Digits(n \div 10, width - 1) \o <<n % 10>>

\* main.py:89, strftime("%Y%m%d"), as the sequence of its characters' digits
StrfTime(date) == Digits(date[1], 4) \o Digits(date[2], 2) \o Digits(date[3], 2)

\* main.py:93, day_name(): Zeller's congruence for the Gregorian calendar
DayName(date) ==
    LET m == IF date[2] < 3 THEN date[2] + 12 ELSE date[2]
        y == IF date[2] < 3 THEN date[1] - 1 ELSE date[1]
        h == (date[3] + ((13 * (m + 1)) \div 5) + (y % 100) + ((y % 100) \div 4)
              + ((y \div 100) \div 4) + 5 * (y \div 100)) % 7
    IN <<"Saturday", "Sunday", "Monday", "Tuesday", "Wednesday", "Thursday", "Friday">>[h + 1]

\* main.py:84-93
TimeDim(orders) ==
    LET unique_dates ==
            Sorted([n \in 1..Len(Unique(DropNa(Column(orders, "OrderDate")
                                               \o Column(orders, "ShipDate")))) |->
                       ToDatetime(Unique(DropNa(Column(orders, "OrderDate")
                                                \o Column(orders, "ShipDate")))[n])])
    IN [n \in 1..Len(unique_dates) |->
           [Date |-> unique_dates[n],
            TimeID |-> StrfTime(unique_dates[n]),
            Year |-> unique_dates[n][1],
            Month |-> unique_dates[n][2],
            Day |-> unique_dates[n][3],
            WeekDay |-> DayName(unique_dates[n])]]

----------------------------------------------------------------------------
(* The statements of the transform as steps                                 *)

\* main.py:50
MergeOrders ==
    /\ tpc = "merge"
    /\ merged_df' = Merge(orders_df, order_details_df, "OrderID", "inner", {})
    /\ tpc' = "aggregate"
    /\ UNCHANGED <<orders_df, order_details_df, customer_agg, product_agg,
                   order_fact_table, time_dim>>

\* main.py:53-63
Aggregate ==
    /\ tpc = "aggregate"
    /\ customer_agg' = CustomerAgg(merged_df)
    /\ product_agg' = ProductAgg(merged_df)
    /\ tpc' = "fact"
    /\ UNCHANGED <<orders_df, order_details_df, merged_df, order_fact_table, time_dim>>

\* main.py:66-82
BuildOrderFact ==
    /\ tpc = "fact"
    /\ order_fact_table' = OrderFact(merged_df, customer_agg, product_agg)
    /\ tpc' = "time"
    /\ UNCHANGED <<orders_df, order_details_df, merged_df, customer_agg, product_agg,
                   time_dim>>

\* main.py:84-93
BuildTimeDim ==
    /\ tpc = "time"
    /\ time_dim' = TimeDim(orders_df)
    /\ tpc' = "done"
    /\ UNCHANGED <<orders_df, order_details_df, merged_df, customer_agg, product_agg,
                   order_fact_table>>

NextT ==
    \/ MergeOrders /\ UNCHANGED pvars
    \/ Aggregate /\ UNCHANGED pvars
    \/ BuildOrderFact /\ UNCHANGED pvars
    \/ BuildTimeDim /\ UNCHANGED pvars

----------------------------------------------------------------------------
(* Bounded inputs of the transform                                          *)

\* Most rows of orders.xlsx and order_details.xlsx together (SpecT).
MaxRows == 3
\* Most rows of orders.xlsx (SpecD).
MaxDateRows == 2

\* The cells of an identifier column: two identifiers and the empty cell.
Ids == {Val(1), Val(2), Null}
Quantities == {Val(2), Null}
Discounts == {Val(50)}

Day1 == <<2024, 3, 7>>
Day2 == <<2023, 12, 31>>
Day3 == <<2024, 3, 8>>

DateCells ==
    {Null, Val([form |-> "ts", at |-> Day1]), Val([form |-> "str", at |-> Day1]),
     Val([form |-> "ts", at |-> Day2]), Val([form |-> "ts", at |-> Day3])}

SeqsUpTo(S, n) == UNION {[1..m -> S] : m \in 0..n}

OrderRows(ids, cells) ==
    [OrderID : ids, CustomerID : ids, OrderDate : cells, ShipDate : cells]

DetailRows ==
    [OrderID : Ids, ProductID : Ids, Quantity : Quantities, Discount : Discounts]

InitOutputs ==
    /\ merged_df = <<>>
    /\ customer_agg = <<>>
    /\ product_agg = <<>>
    /\ order_fact_table = <<>>
    /\ time_dim = <<>>

\* Tables of keys, quantities and discounts; one date per order.
InitT ==
    /\ orders_df \in SeqsUpTo(OrderRows(Ids, {Val([form |-> "ts", at |-> Day1])}), MaxRows)
    /\ order_details_df \in SeqsUpTo(DetailRows, MaxRows - Len(orders_df))
    /\ InitOutputs
    /\ tpc = "merge"

\* Orders with every combination of date cells, and no order details.
InitD ==
    /\ orders_df \in SeqsUpTo(OrderRows({Val(1)}, DateCells), MaxDateRows)
    /\ order_details_df = <<>>
    /\ InitOutputs
    /\ tpc = "merge"

\* The transform is not running.
IdleT ==
    /\ orders_df = <<>>
    /\ order_details_df = <<>>
    /\ InitOutputs
    /\ tpc = "idle"

----------------------------------------------------------------------------
(* Specifications                                                           *)

Init == InitP /\ IdleT

Next ==
    \/ Start /\ UNCHANGED tvars
    \/ ReadEvent /\ UNCHANGED tvars
    \/ LoadFile /\ UNCHANGED tvars
    \/ TransformStep /\ UNCHANGED tvars
    \/ MakeDirs /\ UNCHANGED tvars
    \/ ToCsv /\ UNCHANGED tvars
    \/ ZipOpen /\ UNCHANGED tvars
    \/ ZipListDir /\ UNCHANGED tvars
    \/ ZipWrite /\ UNCHANGED tvars
    \/ ZipClose /\ UNCHANGED tvars
    \/ Upload /\ UNCHANGED tvars
    \/ LogUploaded /\ UNCHANGED tvars
    \/ CleanupExists /\ UNCHANGED tvars
    \/ CleanupListDir /\ UNCHANGED tvars
    \/ CleanupRemove /\ UNCHANGED tvars
    \/ CleanupRmdir /\ UNCHANGED tvars

Spec == Init /\ [][Next]_vars

\* The transform on tables of keys and quantities.
InitSpecT == InitP /\ InitT
SpecT == InitSpecT /\ [][NextT]_vars

\* The transform on orders with date cells.
InitSpecD == InitP /\ InitD
SpecD == InitSpecD /\ [][NextT]_vars

----------------------------------------------------------------------------
(* Claims about the invocation (checked under Spec)                         *)

\* The four required objects, by name.
RequiredObjects == {"customers.xlsx", "products.xlsx", "orders.xlsx", "order_details.xlsx"}

\* The four members the archive is to hold.
TableCsvs ==
    {<<"Customer_Dimension", "csv">>, <<"Product_Dimension", "csv">>,
     <<"Order_Fact", "csv">>, <<"Time_Dimension", "csv">>}

\* The statements of the finally clause, and the state after the return.
Cleaning == {"cleanup", "rm_listdir", "remove", "done"}

\* The required objects listed before `file`.
Before(file) ==
    {file_paths[n] : n \in {m \in 1..Len(file_paths) : \A l \in 1..m : file_paths[l] # file}}

\* A storage, parsing or file-system call of the invocation failed.
EnvFailed == (err # None /\ err[2] = Env) \/ cleanupErr

\* C1: while a required object is absent from its bucket, an invocation has
\* produced no output: it has uploaded nothing, has written no file into the
\* scratch directory, and is either still loading or in its finally clause.
C1_MissingInputNoOutput ==
    (pc # "idle" /\ ~(RequiredObjects \subseteq bucket)) =>
        /\ uploads = 0
        /\ \A n \in FileNames : files[n] # This
        /\ pc \in {"event", "load"} \cup Cleaning

\* C1 witness: an invocation on a bucket without products.xlsx has returned.
C1_Witness ==
    /\ pc = "done"
    /\ bucket = RequiredObjects \ {"products.xlsx"}
    /\ missing = "products.xlsx"
    /\ uploads = 0

\* C2 as claimed: when the missing-input error is raised, no required object
\* has been downloaded or parsed.
C2_NothingLoadedBeforeError == missing # None => dataframes = {}

\* C2 amended: the missing-input error names the first absent object of the
\* list; that object and those listed after it have not been downloaded or
\* parsed, those listed before it exist and have been.
C2_LoadedUpToFirstAbsent ==
    missing # None =>
        /\ err = <<"load", Missing>>
        /\ ~(missing \in bucket)
        /\ dataframes = Before(missing)
        /\ dataframes \subseteq bucket

\* C2 witness: orders.xlsx is the absent one, the two before it are loaded.
C2_Witness ==
    /\ missing = "orders.xlsx"
    /\ dataframes = {"customers.xlsx", "products.xlsx"}
    /\ pc = "cleanup"

\* C3: an exception raised at any stage of the try body is taken by the
\* except clause, exactly once, and the invocation returns normally.
C3_ErrorsSuppressed ==
    /\ outcome # "raised"
    /\ ~escaped
    /\ (err # None => caught = 1)
    /\ (err = None => caught = 0)
    /\ (pc = "done" => outcome = "returned")

\* C3 witness: the upload failed, the error was logged once, the invocation
\* returned.
C3_Witness ==
    /\ pc = "done"
    /\ err = <<"upload", Env>>
    /\ caught = 1
    /\ outcome = "returned"

\* C4: the invocation returns only through the finally clause; when it has
\* returned and no cleanup error was logged, neither the scratch directory
\* nor any file in it exists; a cleanup error never makes it raise.
C4_CleanupOnEveryExit ==
    pc = "done" =>
        /\ outcome = "returned"
        /\ (~cleanupErr => ~dirExists /\ ListDir = {})

\* C4 witness: writing the third CSV failed, the directory held files, the
\* cleanup ran without error.
C4_Witness ==
    /\ pc = "done"
    /\ err = <<"to_csv", Env>>
    /\ k = 3
    /\ ~cleanupErr
    /\ ~dirExists

\* C5: an uploaded archive holds exactly the four table CSVs.
C5_ArchiveHasFourCsvs ==
    uploads > 0 =>
        /\ {e[1] : e \in archive} = TableCsvs
        /\ Cardinality(archive) = 4

\* C5 witness: an invocation that found files of an earlier invocation in
\* the scratch directory has uploaded its archive.
C5_Witness ==
    /\ uploads = 1
    /\ found[1]
    /\ zip_file \in found[2]
    /\ found[2] \cap TableCsvs # {}

\* C6 as claimed: no step of an invocation overwrites or deletes a scratch
\* file that an earlier invocation wrote (each starts on a fresh directory),
\* and an uploaded archive holds only files the invocation itself wrote.
C6_NoSharedScratch ==
    [][/\ \A n \in FileNames : files[n] = Earlier => files'[n] = Earlier
       /\ \A e \in archive' : e[2] = This]_vars

\* C10 as claimed: an invocation whose inputs all exist and whose storage,
\* parsing and file-system calls all succeed uploads once and ends without
\* entering the except clause.
C10_SuccessPathClean ==
    (pc = "done" /\ RequiredObjects \subseteq bucket /\ ~EnvFailed) =>
        /\ uploads = 1
        /\ caught = 0
        /\ err = None

----------------------------------------------------------------------------
(* Claims about the transform (checked under SpecT and SpecD)               *)

\* The pairs (order row, order-detail row) with equal OrderID.
Pairs ==
    {p \in (1..Len(orders_df)) \X (1..Len(order_details_df)) :
        orders_df[p[1]].OrderID = order_details_df[p[2]].OrderID}

\* The input columns of the fact row that a pair gives.
PairRow(p) ==
    [OrderID |-> orders_df[p[1]].OrderID,
     CustomerID |-> orders_df[p[1]].CustomerID,
     ProductID |-> order_details_df[p[2]].ProductID,
     OrderDate |-> orders_df[p[1]].OrderDate,
     ShipDate |-> orders_df[p[1]].ShipDate]

\* The input columns of a fact row.
BaseRow(r) ==
    [OrderID |-> r.OrderID, CustomerID |-> r.CustomerID, ProductID |-> r.ProductID,
     OrderDate |-> r.OrderDate, ShipDate |-> r.ShipDate]

FactRowsLike(v) == {n \in 1..Len(order_fact_table) : BaseRow(order_fact_table[n]) = v}
PairsLike(v) == {p \in Pairs : PairRow(p) = v}

\* C7: the Order Fact table has one row per pair of an order row and an
\* order-detail row with equal OrderID, and no other row; the left joins of
\* the aggregates neither add nor remove rows.
C7_FactRowsAreJoinPairs ==
    tpc = "done" =>
        /\ Len(order_fact_table) = Cardinality(Pairs)
        /\ \A p \in Pairs :
              Cardinality(FactRowsLike(PairRow(p))) = Cardinality(PairsLike(PairRow(p)))
        /\ \A n \in 1..Len(order_fact_table) :
              PairsLike(BaseRow(order_fact_table[n])) # {}

\* C7 witness: two orders share an OrderID, one of them has no CustomerID;
\* the one detail row joins both, and the row without a customer is kept
\* with null customer aggregates.
C7_Witness ==
    /\ tpc = "done"
    /\ Len(orders_df) = 2
    /\ Len(order_details_df) = 1
    /\ Len(order_fact_table) = 2
    /\ \E n \in 1..2 :
          /\ order_fact_table[n].CustomerID = Null
          /\ order_fact_table[n].CustomerOrderCount = Null
    /\ \E n \in 1..2 : order_fact_table[n].CustomerOrderCount = Val(1)

\* The joined rows with a given customer / product.
PairsOfCustomer(c) == {p \in Pairs : orders_df[p[1]].CustomerID = c}
PairsOfProduct(c) == {p \in Pairs : order_details_df[p[2]].ProductID = c}

\* Those of them whose OrderID is not null.
Identified(S) == {p \in S : orders_df[p[1]].OrderID # Null}

\* The sum of the non-null Quantity cells of a set of joined rows.
RECURSIVE QuantityOf(_)
QuantityOf(S) ==
    IF S = {} THEN 0
    ELSE LET p == CHOOSE q \in S : TRUE
             c == order_details_df[p[2]].Quantity
         IN (IF c = Null THEN 0 ELSE c[1]) + QuantityOf(S \ {p})

IsCount(cell) == cell # Null /\ cell[1] \in Nat

\* C8 as claimed: in every Order Fact row the two counts are the numbers of
\* joined rows with the row's CustomerID / ProductID, the total quantity is
\* the sum of Quantity over the joined rows with its ProductID, and the
\* three are non-negative integers.
C8_AggregatesOfEveryRow ==
    tpc = "done" =>
        \A n \in 1..Len(order_fact_table) :
            LET r == order_fact_table[n] IN
            /\ r.CustomerOrderCount = Val(Cardinality(PairsOfCustomer(r.CustomerID)))
            /\ r.ProductOrderCount = Val(Cardinality(PairsOfProduct(r.ProductID)))
            /\ r.ProductTotalQuantity = Val(QuantityOf(PairsOfProduct(r.ProductID)))
            /\ IsCount(r.CustomerOrderCount)
            /\ IsCount(r.ProductOrderCount)
            /\ IsCount(r.ProductTotalQuantity)

\* C8 amended: a row with a CustomerID has as CustomerOrderCount the number
\* of joined rows with that CustomerID and a non-null OrderID; a row with a
\* ProductID has as ProductOrderCount the number of joined rows with that
\* ProductID and a non-null OrderID, and as ProductTotalQuantity the sum of
\* their non-null quantities; these are non-negative integers.  A row
\* without CustomerID (ProductID) has null customer (product) aggregates.
C8_AggregatesOfKeyedRows ==
    tpc = "done" =>
        \A n \in 1..Len(order_fact_table) :
            LET r == order_fact_table[n] IN
            /\ IF r.CustomerID = Null
               THEN r.CustomerOrderCount = Null
               ELSE /\ r.CustomerOrderCount =
                          Val(Cardinality(Identified(PairsOfCustomer(r.CustomerID))))
                    /\ IsCount(r.CustomerOrderCount)
            /\ IF r.ProductID = Null
               THEN r.ProductOrderCount = Null /\ r.ProductTotalQuantity = Null
               ELSE /\ r.ProductOrderCount =
                          Val(Cardinality(Identified(PairsOfProduct(r.ProductID))))
                    /\ r.ProductTotalQuantity = Val(QuantityOf(PairsOfProduct(r.ProductID)))
                    /\ IsCount(r.ProductOrderCount)
                    /\ IsCount(r.ProductTotalQuantity)

\* C8 witness: one order with two detail rows of the same product: both
\* fact rows carry the counts 2 and the total quantity 4.
C8_Witness ==
    /\ tpc = "done"
    /\ Len(order_fact_table) = 2
    /\ \A n \in 1..2 :
          /\ order_fact_table[n].CustomerOrderCount = Val(2)
          /\ order_fact_table[n].ProductOrderCount = Val(2)
          /\ order_fact_table[n].ProductTotalQuantity = Val(4)

\* The dates that occur as OrderDate or ShipDate of some order.
OrderDates ==
    {ToDatetime(orders_df[n].OrderDate) :
        n \in {m \in 1..Len(orders_df) : orders_df[m].OrderDate # Null}}
    \cup
    {ToDatetime(orders_df[n].ShipDate) :
        n \in {m \in 1..Len(orders_df) : orders_df[m].ShipDate # Null}}

\* C9 as claimed: the Time dimension has exactly one row per distinct
\* non-null date of the orders, in ascending order, no date twice; TimeID is
\* the date as YYYYMMDD (20240307 for 2024-03-07) and differs between rows.
C9_TimeDimDistinctAscending ==
    tpc = "done" =>
        /\ {time_dim[n].Date : n \in 1..Len(time_dim)} = OrderDates
        /\ Len(time_dim) = Cardinality(OrderDates)
        /\ \A n \in 1..Len(time_dim), m \in 1..Len(time_dim) :
              n < m => /\ Earlier2(time_dim[n].Date, time_dim[m].Date)
                       /\ time_dim[n].TimeID # time_dim[m].TimeID
        /\ \A n \in 1..Len(time_dim) :
              time_dim[n].Date = <<2024, 3, 7>> => time_dim[n].TimeID = <<2, 0, 2, 4, 0, 3, 0, 7>>

====
